---- MODULE Spec2Model ----
(***************************************************************************)
(* Model of apalis-pubsub: the inbound bridge (PubSubBackend::poll,        *)
(* src/src/lib.rs) that turns the broker's push callback into a bounded    *)
(* channel read by the worker runtime, and the outbound sink               *)
(* (Sink for PubSubBackend, src/src/sink.rs) that buffers items and        *)
(* flushes them to the broker with try_join_all.                           *)
(*                                                                         *)
(* Every await point of the code is the boundary of an action: what runs   *)
(* between two awaits is one atomic step.  The broker client, the codec    *)
(* and the tokio channel are collaborators: their outcomes (ack result,    *)
(* decode result, publish result) are nondeterministic inputs.             *)
(***************************************************************************)
EXTENDS Integers, Sequences, FiniteSets, TLC

\* ---------------------------------------------------------------- bounds
\* Number of distinct broker messages of the subscription.
NumMsgs == 2
\* Number of redeliveries the broker makes in all.
MaxRedeliveries == 1
\* Number of items the worker runtime hands to the sink.
MaxItems == 3
\* config.buffer_size: capacity of the mpsc channel (lib.rs:306,309).
buffer_size == 1
\* config.max_message_size (lib.rs:307).
max_message_size == 1
MaxCalls == 3

Msgs == 1..NumMsgs
\* A payload is known by its length and by whether C::decode accepts it.  The
\* lengths are the two around the limit: the longest accepted, the shortest
\* refused.
Lens == {max_message_size, max_message_size + 1}
\* The task_id attribute of a message: absent, not a UUID, or one of two UUIDs.
Attrs == {"none", "bad", "u1", "u2"}
Payloads == [len : Lens, valid : BOOLEAN, attr : Attrs]
NoPayload == [len |-> 0 - 1, valid |-> FALSE, attr |-> "none"]
AckResults == {"ack_ok", "ack_err"}

VARIABLES
    \* ---- inbound bridge
    payload,      \* payload[m]: message.message.data of message m (NoPayload before its first delivery)
    hpc,          \* hpc[m]: position of the per-message handler of m
    trace,        \* trace[m]: calls the handler(s) of m made, in order (instrumented broker/channel)
    brokerAcked,  \* brokerAcked[m]: the broker has accepted an acknowledgment of m
    chan,         \* contents of the bounded mpsc channel
    rx,           \* "open" | "dropped": the ReceiverStream held by the worker runtime
    consumed,     \* elements the worker runtime took from the inbound sequence
    ended,        \* the inbound sequence yielded None
    cancel,       \* the CancellationToken
    lpc,          \* position of the spawned task that drives subscription.receive
    result,       \* what subscription.receive returned: "none" | "ok" | "err" (lib.rs:314)
    atCancel,     \* the flush that was running when shutdown() was first called
    inputs,       \* the payloads the producers of this run publish
    \* ---- outbound sink
    buffer,       \* sink.buffer
    flush_future, \* sink.flush_future
    published,    \* publisher.publish invocations, in order
    last,         \* operation last called on the sink and what it returned
    nAccepted,    \* number of items accepted so far (names the items 1, 2, ...)
    nFlushes,     \* number of flush futures constructed so far
    epoch,        \* epoch[i]: AcceptedAt when item i was accepted
    failedItems,  \* items whose batch ended in a failed flush
    \* ---- message context
    ctx,          \* a PubSubContext: ack_id and the two closed-over broker operations
    fnCalls,      \* invocations of the broker operations and their outcomes, in order
    ctxLast,      \* method last called on the context and what it returned
    \* ---- middleware
    svc,          \* the PubSubService: the call in progress or last completed
    \* ---- clone
    twin          \* a clone of the sink: its buffer, flush slot, publish calls, last result

varsIn == <<payload, hpc, trace, brokerAcked, chan, rx, consumed, ended, cancel, lpc,
            result, atCancel, inputs>>
varsOut == <<buffer, flush_future, published, last, nAccepted, nFlushes, epoch, failedItems>>
varsCtx == <<ctx, fnCalls, ctxLast>>
vars == <<payload, hpc, trace, brokerAcked, chan, rx, consumed, ended, cancel, lpc,
          result, atCancel, inputs,
          buffer, flush_future, published, last, nAccepted, nFlushes, epoch, failedItems,
          ctx, fnCalls, ctxLast, svc, twin>>

\* --------------------------------------------------------------- helpers
Range(s) == {s[i] : i \in 1..Len(s)}

Count(s, e) == Cardinality({i \in 1..Len(s) : s[i] = e})

\* Index of the last "deliver" in a trace (0 if none): start of the current run.
LastDeliver(t) ==
    IF \E i \in 1..Len(t) : t[i] = "deliver"
    THEN CHOOSE i \in 1..Len(t) : t[i] = "deliver" /\ \A j \in (i+1)..Len(t) : t[j] # "deliver"
    ELSE 0

\* The calls of the current (latest) handler run of a message.
CurrentRun(t) == SubSeq(t, LastDeliver(t) + 1, Len(t))

\* Deliveries made after the first delivery of the same message.
RECURSIVE SumRedeliveries(_)
SumRedeliveries(S) ==
    IF S = {} THEN 0
    ELSE LET m == CHOOSE x \in S : TRUE
             d == Count(trace[m], "deliver")
         IN (IF d > 1 THEN d - 1 ELSE 0) + SumRedeliveries(S \ {m})

Redeliveries == SumRedeliveries(Msgs)

\* lib.rs:323-334: the task_id attribute, if it is there and parses as a UUID.
ParsedTaskId(p) == IF p.attr \in {"none", "bad"} THEN "None" ELSE p.attr

NoId == [attr |-> "None", msg |-> 0, run |-> 0]

\* lib.rs:376: the task is built without with_task_id.  Whatever id the task
\* builder gives such a task, it is taken here as one no other task has; it
\* is named by the delivery it belongs to.
MintedId(m) == [attr |-> "None", msg |-> m, run |-> Count(trace[m], "deliver")]

\* lib.rs:369-376: the id of the task built for the current delivery of m.
TaskIdOf(m) ==
    IF ParsedTaskId(payload[m]) = "None"
    THEN MintedId(m)
    ELSE [attr |-> ParsedTaskId(payload[m]), msg |-> 0, run |-> 0]

TaskElem(m) == [kind |-> "task", msg |-> m, id |-> TaskIdOf(m)]
ErrElem == [kind |-> "err", msg |-> 0, id |-> NoId]

InFlight(m) == hpc[m] \notin {"idle", "done"}

\* Variant: the size check is off by one.
OversizedOffByOne(p) == p.len > max_message_size + 1

\* lib.rs:338  bytes.len() > max_message_size
Oversized(p) == p.len > max_message_size

\* What a closed-over broker operation can return: Ok(()) or Err(String).
FnResults == {[ok |-> TRUE, err |-> ""], [ok |-> FALSE, err |-> "e1"], [ok |-> FALSE, err |-> "e2"]}

OkRet == [ok |-> TRUE, kind |-> "", msg |-> ""]

\* utils.rs:74, 81  .map_err(|e| PubSubError::AckFailed(e))
MapErr(r) == IF r.ok THEN OkRet ELSE [ok |-> FALSE, kind |-> "AckFailed", msg |-> r.err]

\* ------------------------------------------------------------- Init
NoFlush == [some |-> FALSE, batch |-> <<>>, st |-> <<>>, id |-> 0]

\* Nothing recorded: shutdown() was not called yet.
NotCancelled == [set |-> FALSE, flush |-> 0]

\* The producers set no task_id; payloads of either length, decodable or not.
PlainInputs == {p \in Payloads : p.attr = "none"}

\* The producers send decodable payloads within the limit with any task_id
\* attribute, and untagged payloads of any kind.
TaggedInputs == {p \in Payloads : (p.valid /\ p.len = max_message_size) \/ p.attr = "none"}

InitIn ==
    /\ payload = [m \in Msgs |-> NoPayload]
    /\ hpc = [m \in Msgs |-> "idle"]
    /\ trace = [m \in Msgs |-> <<>>]
    /\ brokerAcked = [m \in Msgs |-> FALSE]
    /\ chan = <<>>
    /\ rx = "open"
    /\ consumed = <<>>
    /\ ended = FALSE
    /\ cancel = FALSE
    /\ lpc = "receiving"
    /\ result = "none"
    /\ atCancel = NotCancelled

InitOut ==
    /\ buffer = <<>>
    /\ flush_future = NoFlush
    /\ published = <<>>
    /\ last = [op |-> "new", ret |-> "Ok"]
    /\ nAccepted = 0
    /\ nFlushes = 0
    /\ epoch = <<>>
    /\ failedItems = {}

\* utils.rs:58-68  PubSubContext::new(ack_id, ack_fn, nack_fn)
InitCtx ==
    /\ ctx = [ack_id |-> "ack-1", ack_fn |-> "acknowledge", nack_fn |-> "negative_acknowledge"]
    /\ fnCalls = <<>>
    /\ ctxLast = [op |-> "new", ret |-> OkRet]

\* lib.rs:33-35  PubSubLayer::layer: a service that has not been called.
NoCall == [pc |-> "idle", n |-> 0, passed |-> ErrElem, inner |-> "none", ret |-> "none"]

InitSvc == svc = NoCall

\* No clone of the sink has been made.
NoTwin == [exists |-> FALSE, buffer |-> <<>>, flush_future |-> NoFlush, published |-> <<>>,
           last |-> "none"]

InitTwin == twin = NoTwin

Init == InitIn /\ InitOut /\ InitCtx /\ InitSvc /\ InitTwin /\ inputs = PlainInputs

InitTagged == InitIn /\ InitOut /\ InitCtx /\ InitSvc /\ InitTwin /\ inputs = TaggedInputs

\* ------------------------------------------------------ inbound bridge
\* The broker hands message m to the receive callback: a first delivery, or a
\* redelivery of a message that is still unacknowledged.  No delivery starts
\* once the token is cancelled or receive has returned.
Deliver(m) ==
    /\ lpc = "receiving"
    /\ ~cancel
    /\ hpc[m] \in {"idle", "done"}
    /\ ~brokerAcked[m]
    /\ (trace[m] # <<>> => Redeliveries < MaxRedeliveries)
    /\ \E p \in inputs :
          /\ (payload[m] # NoPayload => p = payload[m])
          /\ payload' = [payload EXCEPT ![m] = p]
    /\ hpc' = [hpc EXCEPT ![m] = "recv"]
    /\ trace' = [trace EXCEPT ![m] = Append(@, "deliver")]
    /\ UNCHANGED <<brokerAcked, chan, rx, consumed, ended, cancel, lpc, result, atCancel, inputs>>
    /\ UNCHANGED varsOut
    /\ UNCHANGED varsCtx
    /\ UNCHANGED svc
    /\ UNCHANGED twin

\* Variant: a decoded message is acknowledged before it is sent to the channel.
HandleMessageAckFirst(m) ==
    /\ hpc[m] = "recv"
    /\ IF ~Oversized(payload[m]) /\ payload[m].valid
       THEN /\ hpc' = [hpc EXCEPT ![m] = "send"]
            /\ trace' = [trace EXCEPT ![m] = Append(@, "ack_ok")]
            /\ brokerAcked' = [brokerAcked EXCEPT ![m] = TRUE]
       ELSE /\ hpc' = [hpc EXCEPT ![m] =
                          IF Oversized(payload[m]) THEN "ack_oversized" ELSE "ack_poison"]
            /\ UNCHANGED <<trace, brokerAcked>>
    /\ UNCHANGED <<payload, chan, rx, consumed, ended, cancel, lpc, result, atCancel, inputs>>
    /\ UNCHANGED varsOut
    /\ UNCHANGED varsCtx
    /\ UNCHANGED svc
    /\ UNCHANGED twin

\* Variant: a payload that does not decode is passed on to the worker runtime
\* like a decoded one.
HandleMessageSurfacesPoison(m) ==
    /\ hpc[m] = "recv"
    /\ hpc' = [hpc EXCEPT ![m] =
                  IF Oversized(payload[m]) THEN "ack_oversized" ELSE "send"]
    /\ UNCHANGED <<payload, trace, brokerAcked, chan, rx, consumed, ended, cancel, lpc, result, atCancel, inputs>>
    /\ UNCHANGED varsOut
    /\ UNCHANGED varsCtx
    /\ UNCHANGED svc
    /\ UNCHANGED twin

\* lib.rs:321-376: the synchronous head of the handler, up to its first await.
HandleMessage(m) ==
    /\ hpc[m] = "recv"
    /\ hpc' = [hpc EXCEPT ![m] =
                  IF Oversized(payload[m]) THEN "ack_oversized"
                  ELSE IF ~payload[m].valid THEN "ack_poison"
                  ELSE "send"]
    /\ UNCHANGED <<payload, trace, brokerAcked, chan, rx, consumed, ended, cancel, lpc, result, atCancel, inputs>>
    /\ UNCHANGED varsOut
    /\ UNCHANGED varsCtx
    /\ UNCHANGED svc
    /\ UNCHANGED twin

\* message.ack().await with result r, logged and otherwise ignored.
AckCall(m, r) ==
    /\ trace' = [trace EXCEPT ![m] = Append(@, r)]
    /\ brokerAcked' = [brokerAcked EXCEPT ![m] = @ \/ (r = "ack_ok")]
    /\ hpc' = [hpc EXCEPT ![m] = "done"]

\* lib.rs:338-344
AckOversized(m) ==
    /\ hpc[m] = "ack_oversized"
    /\ \E r \in AckResults : AckCall(m, r)
    /\ UNCHANGED <<payload, chan, rx, consumed, ended, cancel, lpc, result, atCancel, inputs>>
    /\ UNCHANGED varsOut
    /\ UNCHANGED varsCtx
    /\ UNCHANGED svc
    /\ UNCHANGED twin

\* Variant: a poison message is dropped without an acknowledgment.
AckPoisonSkipped(m) ==
    /\ hpc[m] = "ack_poison"
    /\ hpc' = [hpc EXCEPT ![m] = "done"]
    /\ UNCHANGED <<payload, trace, brokerAcked, chan, rx, consumed, ended, cancel, lpc, result, atCancel, inputs>>
    /\ UNCHANGED varsOut
    /\ UNCHANGED varsCtx
    /\ UNCHANGED svc
    /\ UNCHANGED twin

\* lib.rs:354-365
AckPoison(m) ==
    /\ hpc[m] = "ack_poison"
    /\ \E r \in AckResults : AckCall(m, r)
    /\ UNCHANGED <<payload, chan, rx, consumed, ended, cancel, lpc, result, atCancel, inputs>>
    /\ UNCHANGED varsOut
    /\ UNCHANGED varsCtx
    /\ UNCHANGED svc
    /\ UNCHANGED twin

\* Variant: the result of the send is ignored and the message acknowledged.
SendTaskIgnoresError(m) ==
    /\ hpc[m] = "send"
    /\ IF rx = "dropped"
       THEN /\ trace' = [trace EXCEPT ![m] = Append(@, "send_closed")]
            /\ chan' = chan
       ELSE /\ Len(chan) < buffer_size
            /\ chan' = Append(chan, TaskElem(m))
            /\ trace' = [trace EXCEPT ![m] = Append(@, "send_ok")]
    /\ hpc' = [hpc EXCEPT ![m] = "ack_sent"]
    /\ UNCHANGED <<payload, brokerAcked, rx, consumed, ended, cancel, lpc, result, atCancel, inputs>>
    /\ UNCHANGED varsOut
    /\ UNCHANGED varsCtx
    /\ UNCHANGED svc
    /\ UNCHANGED twin

\* Variant: the channel is unbounded, a send never waits for room.
SendTaskUnbounded(m) ==
    /\ hpc[m] = "send"
    /\ IF rx = "dropped"
       THEN /\ trace' = [trace EXCEPT ![m] = Append(@, "send_closed")]
            /\ hpc' = [hpc EXCEPT ![m] = "done"]
            /\ chan' = chan
       ELSE /\ chan' = Append(chan, TaskElem(m))
            /\ trace' = [trace EXCEPT ![m] = Append(@, "send_ok")]
            /\ hpc' = [hpc EXCEPT ![m] = "ack_sent"]
    /\ UNCHANGED <<payload, brokerAcked, rx, consumed, ended, cancel, lpc, result, atCancel, inputs>>
    /\ UNCHANGED varsOut
    /\ UNCHANGED varsCtx
    /\ UNCHANGED svc
    /\ UNCHANGED twin

\* lib.rs:379-391: tx.send(Ok(Some(task))).await.  The send fails when the
\* receiver is gone, succeeds when the channel has room and otherwise stays
\* suspended (the action is disabled).
SendTask(m) ==
    /\ hpc[m] = "send"
    /\ IF rx = "dropped"
       THEN /\ trace' = [trace EXCEPT ![m] = Append(@, "send_closed")]
            /\ hpc' = [hpc EXCEPT ![m] = "done"]
            /\ chan' = chan
       ELSE /\ Len(chan) < buffer_size
            /\ chan' = Append(chan, TaskElem(m))
            /\ trace' = [trace EXCEPT ![m] = Append(@, "send_ok")]
            /\ hpc' = [hpc EXCEPT ![m] = "ack_sent"]
    /\ UNCHANGED <<payload, brokerAcked, rx, consumed, ended, cancel, lpc, result, atCancel, inputs>>
    /\ UNCHANGED varsOut
    /\ UNCHANGED varsCtx
    /\ UNCHANGED svc
    /\ UNCHANGED twin

\* Variant: a failed acknowledgment is passed on to the worker as an error
\* element of the inbound sequence.
AckSentPropagates(m) ==
    /\ hpc[m] = "ack_sent"
    /\ \E r \in AckResults :
          /\ AckCall(m, r)
          /\ chan' = IF r = "ack_err" /\ rx = "open" THEN Append(chan, ErrElem) ELSE chan
    /\ UNCHANGED <<payload, rx, consumed, ended, cancel, lpc, result, atCancel, inputs>>
    /\ UNCHANGED varsOut
    /\ UNCHANGED varsCtx
    /\ UNCHANGED svc
    /\ UNCHANGED twin

\* lib.rs:380-387
AckSent(m) ==
    /\ hpc[m] = "ack_sent"
    /\ \E r \in AckResults : AckCall(m, r)
    /\ UNCHANGED <<payload, chan, rx, consumed, ended, cancel, lpc, result, atCancel, inputs>>
    /\ UNCHANGED varsOut
    /\ UNCHANGED varsCtx
    /\ UNCHANGED svc
    /\ UNCHANGED twin

\* Variant: shutdown() also drops the flush that is running in the sink.
shutdownAbortsFlush ==
    /\ cancel' = TRUE
    /\ atCancel' = IF cancel THEN atCancel
                   ELSE [set |-> TRUE, flush |-> flush_future.id]
    /\ flush_future' = NoFlush
    /\ UNCHANGED <<payload, hpc, trace, brokerAcked, chan, rx, consumed, ended, lpc, result, inputs>>
    /\ UNCHANGED <<buffer, published, last, nAccepted, nFlushes, epoch, failedItems>>
    /\ UNCHANGED varsCtx
    /\ UNCHANGED svc
    /\ UNCHANGED twin

\* lib.rs:276-278
shutdown ==
    /\ cancel' = TRUE
    /\ atCancel' = IF cancel THEN atCancel
                   ELSE [set |-> TRUE, flush |-> flush_future.id]
    /\ UNCHANGED <<payload, hpc, trace, brokerAcked, chan, rx, consumed, ended, lpc, result, inputs>>
    /\ UNCHANGED varsOut
    /\ UNCHANGED varsCtx
    /\ UNCHANGED svc
    /\ UNCHANGED twin

\* Variant: the task stops driving receive as soon as the token is cancelled
\* and drops the handlers that are still running.
ReceiveReturnsOnCancel ==
    /\ lpc = "receiving"
    /\ cancel
    /\ lpc' = "finished"
    /\ result' = "ok"
    /\ UNCHANGED <<payload, hpc, trace, brokerAcked, chan, rx, consumed, ended, cancel, atCancel, inputs>>
    /\ UNCHANGED varsOut
    /\ UNCHANGED varsCtx
    /\ UNCHANGED svc
    /\ UNCHANGED twin

\* Variant: the task keeps its sender after receive has returned (it parks
\* instead of finishing), so the channel never closes.
ReceiveReturnsKeepsSender ==
    /\ lpc = "receiving"
    /\ cancel
    /\ \A m \in Msgs : ~InFlight(m)
    /\ lpc' = "parked"
    /\ result' = "ok"
    /\ UNCHANGED <<payload, hpc, trace, brokerAcked, chan, rx, consumed, ended, cancel, atCancel, inputs>>
    /\ UNCHANGED varsOut
    /\ UNCHANGED varsCtx
    /\ UNCHANGED svc
    /\ UNCHANGED twin

\* subscription.receive(...) returns Ok(()): the token is cancelled and every
\* started handler has finished.
ReceiveReturnsOk ==
    /\ lpc = "receiving"
    /\ cancel
    /\ \A m \in Msgs : ~InFlight(m)
    /\ lpc' = "finished"
    /\ result' = "ok"
    /\ UNCHANGED <<payload, hpc, trace, brokerAcked, chan, rx, consumed, ended, cancel, atCancel, inputs>>
    /\ UNCHANGED varsOut
    /\ UNCHANGED varsCtx
    /\ UNCHANGED svc
    /\ UNCHANGED twin

\* subscription.receive(...) returns Err(e); lib.rs:399-401.
ReceiveReturnsErr ==
    /\ lpc = "receiving"
    /\ \A m \in Msgs : ~InFlight(m)
    /\ lpc' = "send_err"
    /\ result' = "err"
    /\ UNCHANGED <<payload, hpc, trace, brokerAcked, chan, rx, consumed, ended, cancel, atCancel, inputs>>
    /\ UNCHANGED varsOut
    /\ UNCHANGED varsCtx
    /\ UNCHANGED svc
    /\ UNCHANGED twin

\* Variant: the error is sent with try_send and lost when the channel is full.
SendSubscriptionErrorTry ==
    /\ lpc = "send_err"
    /\ chan' = IF rx = "open" /\ Len(chan) < buffer_size THEN Append(chan, ErrElem) ELSE chan
    /\ lpc' = "finished"
    /\ UNCHANGED <<payload, hpc, trace, brokerAcked, rx, consumed, ended, cancel, result, atCancel, inputs>>
    /\ UNCHANGED varsOut
    /\ UNCHANGED varsCtx
    /\ UNCHANGED svc
    /\ UNCHANGED twin

\* lib.rs:402-404: tx.send(Err(err)).await, then the task ends and drops tx.
SendSubscriptionError ==
    /\ lpc = "send_err"
    /\ IF rx = "dropped"
       THEN chan' = chan
       ELSE /\ Len(chan) < buffer_size
            /\ chan' = Append(chan, ErrElem)
    /\ lpc' = "finished"
    /\ UNCHANGED <<payload, hpc, trace, brokerAcked, rx, consumed, ended, cancel, result, atCancel, inputs>>
    /\ UNCHANGED varsOut
    /\ UNCHANGED varsCtx
    /\ UNCHANGED svc
    /\ UNCHANGED twin

\* The worker runtime takes the next element of the inbound sequence
\* (ReceiverStream::poll_next, lib.rs:409).
ConsumerNext ==
    /\ rx = "open"
    /\ ~ended
    /\ IF chan # <<>>
       THEN /\ consumed' = Append(consumed, Head(chan))
            /\ chan' = Tail(chan)
            /\ ended' = ended
       ELSE \* None: every sender is dropped and the channel is empty
            /\ lpc = "finished"
            /\ ended' = TRUE
            /\ UNCHANGED <<consumed, chan>>
    /\ UNCHANGED <<payload, hpc, trace, brokerAcked, rx, cancel, lpc, result, atCancel, inputs>>
    /\ UNCHANGED varsOut
    /\ UNCHANGED varsCtx
    /\ UNCHANGED svc
    /\ UNCHANGED twin

\* The worker runtime abandons the inbound sequence: the receiver is dropped,
\* the channel is closed and what it still holds is discarded.
ConsumerDrop ==
    /\ rx = "open"
    /\ rx' = "dropped"
    /\ chan' = <<>>
    /\ UNCHANGED <<payload, hpc, trace, brokerAcked, consumed, ended, cancel, lpc, result, atCancel, inputs>>
    /\ UNCHANGED varsOut
    /\ UNCHANGED varsCtx
    /\ UNCHANGED svc
    /\ UNCHANGED twin

\* The spawned task, its handlers, shutdown() and the drop of the stream.
NextBridge ==
    \/ \E m \in Msgs : Deliver(m)
    \/ \E m \in Msgs : HandleMessage(m)
    \/ \E m \in Msgs : AckOversized(m)
    \/ \E m \in Msgs : AckPoison(m)
    \/ \E m \in Msgs : SendTask(m)
    \/ \E m \in Msgs : AckSent(m)
    \/ shutdown
    \/ ReceiveReturnsOk
    \/ ReceiveReturnsErr
    \/ SendSubscriptionError
    \/ ConsumerDrop

NextIn ==
    \/ NextBridge
    \/ ConsumerNext

SpecIn == Init /\ [][NextIn]_vars

\* Scheduling of the inbound bridge: the runtime keeps polling the spawned
\* task and the handlers it drives, the broker answers every acknowledge
\* call and returns from receive once it may, and the worker runtime keeps
\* polling the inbound sequence for as long as it holds it.
HandlerStep(m) ==
    \/ HandleMessage(m)
    \/ AckOversized(m)
    \/ AckPoison(m)
    \/ SendTask(m)
    \/ AckSent(m)

FairIn ==
    /\ \A m \in Msgs : WF_vars(HandlerStep(m))
    /\ WF_vars(ReceiveReturnsOk)
    /\ WF_vars(SendSubscriptionError)
    /\ WF_vars(ConsumerNext)

\* One untagged payload of each kind the handler tells apart: oversized,
\* undecodable, and decodable within the limit.
KindInputs ==
    {p \in PlainInputs : p.len > max_message_size => p.valid}

InitKinds == InitIn /\ InitOut /\ InitCtx /\ InitSvc /\ InitTwin /\ inputs = KindInputs

SpecInLive == InitKinds /\ [][NextIn]_vars /\ FairIn

\* The inbound bridge fed with decodable messages that carry task_id attributes.
SpecTagged == InitTagged /\ [][NextIn]_vars

\* ------------------------------------------------------- outbound sink
\* sink.rs:80-107: one poll of the flush future.  try_join_all polls the
\* children in batch order and stops at the first one that is ready with an
\* error.  A child polled for the first time calls publisher.publish and then
\* waits on its awaiter; the broker's result arrives between polls.
FirstErr(st) ==
    IF \E i \in 1..Len(st) : st[i] = "err"
    THEN CHOOSE i \in 1..Len(st) : st[i] = "err" /\ \A j \in 1..(i-1) : st[j] # "err"
    ELSE 0

\* The children this poll reaches.
Polled(st) == IF FirstErr(st) = 0 THEN 1..Len(st) ELSE 1..FirstErr(st)

\* Variant: the items are published one after the other, each after the
\* result of the one before it.
IssuedSerially(st) ==
    {i \in Polled(st) : st[i] = "created" /\ \A j \in 1..(i-1) : st[j] = "ok"}

\* The children whose publish call this poll issues (sink.rs:86-91).
Issued(st) == {i \in Polled(st) : st[i] = "created"}

PollChildren(st) == [i \in 1..Len(st) |-> IF i \in Issued(st) THEN "waiting" ELSE st[i]]

\* Variant: the flush does not wait for the results of the publishes it
\* issued.
PollResultNoWait(st) ==
    IF FirstErr(st) # 0 THEN "ReadyErr" ELSE "ReadyOk"

\* Result of the poll (sink.rs:104-106).
PollResult(st) ==
    IF FirstErr(st) # 0 THEN "ReadyErr"
    ELSE IF \E i \in 1..Len(st) : PollChildren(st)[i] = "waiting" THEN "Pending"
    ELSE "ReadyOk"

\* Publish calls in the order the poll issues them.
RECURSIVE IssuedCalls(_, _, _)
IssuedCalls(f, st, i) ==
    IF i > Len(st) THEN <<>>
    ELSE (IF i \in Issued(st) THEN <<[item |-> f.batch[i], flush |-> f.id]>> ELSE <<>>)
         \o IssuedCalls(f, st, i + 1)

\* Variant: a flush is constructed only once a batch of two has filled up.
StartsFlushWhenFull == ~flush_future.some /\ Len(buffer) >= 2

\* sink.rs:74-110: the flush future poll_flush works on: the one in the slot,
\* or a new one that owns the whole buffer.
StartsFlushWhenever == buffer # <<>>

StartsFlush == ~flush_future.some /\ buffer # <<>>

FlushToPoll ==
    IF StartsFlush
    THEN [some |-> TRUE, batch |-> buffer,
          st |-> [i \in 1..Len(buffer) |-> "created"], id |-> nFlushes + 1]
    ELSE flush_future

\* Variant: the flush copies the buffer and leaves it as it is.
BufferNotTaken == buffer

\* sink.rs:77  std::mem::take(&mut me.sink.buffer)
BufferAfterFlushStart == IF StartsFlush THEN <<>> ELSE buffer

\* Variant: the error branch leaves the finished flush in the slot.
SlotKeptOnError(f, r) ==
    IF r = "ReadyOk" THEN NoFlush ELSE [f EXCEPT !.st = PollChildren(f.st)]

\* Variant: a drain that completes a flush goes on with a flush of what the
\* buffer holds by then.
SlotRefilledOnReady(f, r) ==
    IF r = "Pending" THEN [f EXCEPT !.st = PollChildren(f.st)]
    ELSE IF buffer # <<>>
         THEN [some |-> TRUE, batch |-> buffer,
               st |-> [i \in 1..Len(buffer) |-> "waiting"], id |-> f.id + 1]
         ELSE NoFlush

\* sink.rs:115-131: the flush slot after the poll returned r.
SlotAfterPoll(f, r) ==
    IF r = "Pending" THEN [f EXCEPT !.st = PollChildren(f.st)] ELSE NoFlush

\* sink.rs:66-135
poll_flush(op) ==
    IF ~flush_future.some /\ buffer = <<>>
    THEN \* sink.rs:69-72
         /\ last' = [op |-> op, ret |-> "ReadyOk"]
         /\ UNCHANGED <<buffer, flush_future, published, nFlushes, failedItems>>
    ELSE LET f == FlushToPoll
             r == PollResult(f.st)
         IN IF ~f.some
            THEN \* sink.rs:132-134  unreachable!()
                 /\ last' = [op |-> op, ret |-> "panic"]
                 /\ UNCHANGED <<buffer, flush_future, published, nFlushes, failedItems>>
            ELSE \* sink.rs:112-131
                 /\ buffer' = BufferAfterFlushStart
                 /\ nFlushes' = f.id
                 /\ published' = published \o IssuedCalls(f, f.st, 1)
                 /\ flush_future' = SlotAfterPoll(f, r)
                 /\ failedItems' = IF r = "ReadyErr"
                                   THEN failedItems \cup Range(f.batch)
                                   ELSE failedItems
                 /\ last' = [op |-> op, ret |-> r]

PollFlush ==
    /\ poll_flush("poll_flush")
    /\ UNCHANGED <<nAccepted, epoch>>
    /\ UNCHANGED varsIn
    /\ UNCHANGED varsCtx
    /\ UNCHANGED svc
    /\ UNCHANGED twin

\* Variant: close tears the sink down: it drops what is buffered and the
\* flush in the slot and reports Ready.
PollCloseTearsDown ==
    /\ last' = [op |-> "poll_close", ret |-> "ReadyOk"]
    /\ buffer' = <<>>
    /\ flush_future' = NoFlush
    /\ UNCHANGED <<published, nFlushes, failedItems>>
    /\ UNCHANGED <<nAccepted, epoch>>
    /\ UNCHANGED varsIn
    /\ UNCHANGED varsCtx
    /\ UNCHANGED svc
    /\ UNCHANGED twin

\* sink.rs:137-139
PollClose ==
    /\ poll_flush("poll_close")
    /\ UNCHANGED <<nAccepted, epoch>>
    /\ UNCHANGED varsIn
    /\ UNCHANGED varsCtx
    /\ UNCHANGED svc
    /\ UNCHANGED twin

\* sink.rs:54-56
PollReady ==
    /\ last' = [op |-> "poll_ready", ret |-> "ReadyOk"]
    /\ UNCHANGED <<buffer, flush_future, published, nAccepted, nFlushes, epoch, failedItems>>
    /\ UNCHANGED varsIn
    /\ UNCHANGED varsCtx
    /\ UNCHANGED svc
    /\ UNCHANGED twin

\* What holds of the sink when an item is accepted: the flushes so far,
\* whether one is running, and whether close has just reported Ready.
AcceptedAt ==
    [n |-> nFlushes, inflight |-> flush_future.some,
     afterClose |-> (last = [op |-> "poll_close", ret |-> "ReadyOk"])]

\* sink.rs:62  me.sink.buffer.push(item)
BufferPush(item) == Append(buffer, item)

\* Variant: an item accepted during a flush joins the batch of that flush.
StartSendIntoFlush ==
    /\ nAccepted < MaxItems
    /\ nAccepted' = nAccepted + 1
    /\ epoch' = Append(epoch, AcceptedAt)
    /\ IF flush_future.some
       THEN /\ flush_future' = [flush_future EXCEPT !.batch = Append(@, nAccepted + 1),
                                                    !.st = Append(@, "created")]
            /\ buffer' = buffer
       ELSE /\ buffer' = BufferPush(nAccepted + 1)
            /\ flush_future' = flush_future
    /\ last' = [op |-> "start_send", ret |-> "Ok"]
    /\ UNCHANGED <<published, nFlushes, failedItems>>
    /\ UNCHANGED <<payload, hpc, trace, brokerAcked, chan, rx, consumed, ended, cancel, lpc, result, atCancel, inputs>>
    /\ UNCHANGED varsCtx
    /\ UNCHANGED svc
    /\ UNCHANGED twin

\* Variant: the sink caps its buffer at buffer_size items and rejects an item
\* that does not fit.
StartSendCapped ==
    /\ nAccepted < MaxItems
    /\ IF Len(buffer) < buffer_size
       THEN /\ nAccepted' = nAccepted + 1
            /\ epoch' = Append(epoch, AcceptedAt)
            /\ buffer' = BufferPush(nAccepted + 1)
            /\ last' = [op |-> "start_send", ret |-> "Ok"]
       ELSE /\ last' = [op |-> "start_send", ret |-> "Err"]
            /\ UNCHANGED <<nAccepted, epoch, buffer>>
    /\ UNCHANGED <<flush_future, published, nFlushes, failedItems>>
    /\ UNCHANGED varsIn
    /\ UNCHANGED varsCtx
    /\ UNCHANGED svc
    /\ UNCHANGED twin

\* sink.rs:58-64.  The items are named 1, 2, ... in the order of acceptance.
StartSend ==
    /\ nAccepted < MaxItems
    /\ nAccepted' = nAccepted + 1
    /\ epoch' = Append(epoch, AcceptedAt)
    /\ buffer' = BufferPush(nAccepted + 1)
    /\ last' = [op |-> "start_send", ret |-> "Ok"]
    /\ UNCHANGED <<flush_future, published, nFlushes, failedItems>>
    /\ UNCHANGED varsIn
    /\ UNCHANGED varsCtx
    /\ UNCHANGED svc
    /\ UNCHANGED twin

\* The broker completes the publish of child i of the running flush with
\* result r (awaiter.get(), sink.rs:94-98).
PublishCompletes(i, r) ==
    /\ flush_future.some
    /\ i \in 1..Len(flush_future.st)
    /\ flush_future.st[i] = "waiting"
    /\ flush_future' = [flush_future EXCEPT !.st[i] = r]
    /\ UNCHANGED <<buffer, published, last, nAccepted, nFlushes, epoch, failedItems>>
    /\ UNCHANGED varsIn
    /\ UNCHANGED varsCtx
    /\ UNCHANGED svc
    /\ UNCHANGED twin

NextOut ==
    \/ shutdown
    \/ PollReady
    \/ StartSend
    \/ PollFlush
    \/ PollClose
    \/ \E i \in 1..MaxItems, r \in {"ok", "err"} : PublishCompletes(i, r)

SpecOut == Init /\ [][NextOut]_vars

\* Scheduling of the sink: the broker answers every publish that was issued,
\* and the caller keeps polling drain.
FairOut ==
    /\ \A i \in 1..MaxItems : WF_vars(\E r \in {"ok", "err"} : PublishCompletes(i, r))
    /\ WF_vars(PollFlush)

SpecOutLive == Init /\ [][NextOut]_vars /\ FairOut

\* ---------------------------------------------------------- sink clone
\* Variant: the clone also gets the flush that is running in the original.
cloneCopiesFlush ==
    /\ ~twin.exists
    /\ twin' = [exists |-> TRUE, buffer |-> buffer, flush_future |-> flush_future,
                published |-> <<>>, last |-> "none"]
    /\ UNCHANGED <<varsIn, varsOut, varsCtx, svc>>

\* sink.rs:27-35  Clone for PubSubSink (and the derived Clone of the backend,
\* lib.rs:203): the buffer is cloned, the flush slot starts empty.
clone ==
    /\ ~twin.exists
    /\ twin' = [exists |-> TRUE, buffer |-> buffer, flush_future |-> NoFlush,
                published |-> <<>>, last |-> "none"]
    /\ UNCHANGED <<varsIn, varsOut, varsCtx, svc>>

\* sink.rs:66-135 on the clone: the flush the drain works on.
TwinFlushToPoll ==
    IF ~twin.flush_future.some
    THEN [some |-> TRUE, batch |-> twin.buffer,
          st |-> [i \in 1..Len(twin.buffer) |-> "created"], id |-> 1]
    ELSE twin.flush_future

TwinPollFlush ==
    /\ twin.exists
    /\ IF ~twin.flush_future.some /\ twin.buffer = <<>>
       THEN twin' = [twin EXCEPT !.last = "ReadyOk"]
       ELSE LET f == TwinFlushToPoll
                r == PollResult(f.st)
            IN twin' = [twin EXCEPT
                          !.buffer = IF twin.flush_future.some THEN @ ELSE <<>>,
                          !.flush_future = SlotAfterPoll(f, r),
                          !.published = @ \o IssuedCalls(f, f.st, 1),
                          !.last = r]
    /\ UNCHANGED <<varsIn, varsOut, varsCtx, svc>>

\* The broker completes a publish of the clone's flush.
TwinPublishCompletes(i, r) ==
    /\ twin.flush_future.some
    /\ i \in 1..Len(twin.flush_future.st)
    /\ twin.flush_future.st[i] = "waiting"
    /\ twin' = [twin EXCEPT !.flush_future.st[i] = r]
    /\ UNCHANGED <<varsIn, varsOut, varsCtx, svc>>

\* The sink and one clone of it, each accepted into, drained and answered by
\* the broker on its own.
NextClone ==
    \/ StartSend
    \/ PollFlush
    \/ \E i \in 1..MaxItems, r \in {"ok", "err"} : PublishCompletes(i, r)
    \/ clone
    \/ TwinPollFlush
    \/ \E i \in 1..MaxItems, r \in {"ok", "err"} : TwinPublishCompletes(i, r)

SpecClone == Init /\ [][NextClone]_vars

\* ------------------------------------------------------ message context
\* Variant: ack() calls the negative-acknowledge operation.
ackCallsNack ==
    /\ Len(fnCalls) < MaxCalls
    /\ \E r \in FnResults :
           /\ fnCalls' = Append(fnCalls, [fn |-> ctx.nack_fn, out |-> r])
           /\ ctxLast' = [op |-> "ack", ret |-> MapErr(r)]
    /\ UNCHANGED ctx
    /\ UNCHANGED <<varsIn, varsOut, svc>>
    /\ UNCHANGED twin

\* utils.rs:71-75  PubSubContext::ack; r is what the broker operation returns.
ack ==
    /\ Len(fnCalls) < MaxCalls
    /\ \E r \in FnResults :
           /\ fnCalls' = Append(fnCalls, [fn |-> ctx.ack_fn, out |-> r])
           /\ ctxLast' = [op |-> "ack", ret |-> MapErr(r)]
    /\ UNCHANGED ctx
    /\ UNCHANGED <<varsIn, varsOut, svc>>
    /\ UNCHANGED twin

\* utils.rs:78-82  PubSubContext::nack
nack ==
    /\ Len(fnCalls) < MaxCalls
    /\ \E r \in FnResults :
           /\ fnCalls' = Append(fnCalls, [fn |-> ctx.nack_fn, out |-> r])
           /\ ctxLast' = [op |-> "nack", ret |-> MapErr(r)]
    /\ UNCHANGED ctx
    /\ UNCHANGED <<varsIn, varsOut, svc>>
    /\ UNCHANGED twin

NextCtx == ack \/ nack

SpecCtx == Init /\ [][NextCtx]_vars

\* ------------------------------------------------------------ middleware
\* lib.rs:61-65  PubSubService::call(req): the service passes req on to the
\* inner service and returns the inner service's future.
call(req) ==
    [pc |-> "inner", n |-> Len(consumed) + 1, passed |-> req, inner |-> "none", ret |-> "none"]

\* A worker that runs one task at a time: when the service is ready
\* (lib.rs:57-59 passes poll_ready to the inner service) it takes the next
\* element of the inbound sequence and calls the service with it if it is a
\* work item.
WorkerTake ==
    /\ svc.pc # "inner"
    /\ rx = "open"
    /\ ~ended
    /\ IF chan # <<>>
       THEN /\ consumed' = Append(consumed, Head(chan))
            /\ chan' = Tail(chan)
            /\ ended' = ended
            /\ svc' = IF Head(chan).kind = "task" THEN call(Head(chan)) ELSE svc
       ELSE /\ lpc = "finished"
            /\ ended' = TRUE
            /\ UNCHANGED <<consumed, chan, svc>>
    /\ UNCHANGED <<payload, hpc, trace, brokerAcked, rx, cancel, lpc, result, atCancel, inputs>>
    /\ UNCHANGED <<varsOut, varsCtx>>
    /\ UNCHANGED twin

\* Variant: the service acknowledges the message through the task's context
\* when the inner service has completed the task successfully.
InnerCompletesAcks(r) ==
    /\ svc.pc = "inner"
    /\ svc' = [svc EXCEPT !.pc = "done", !.inner = r, !.ret = r]
    /\ IF r = "Ok"
       THEN /\ fnCalls' = Append(fnCalls, [fn |-> ctx.ack_fn, out |-> [ok |-> TRUE, err |-> ""]])
            /\ UNCHANGED <<ctx, ctxLast>>
       ELSE UNCHANGED varsCtx
    /\ UNCHANGED <<varsIn, varsOut>>
    /\ UNCHANGED twin

\* lib.rs:64: the future the service returns is the inner service's future:
\* it resolves to the inner result r.
InnerCompletes(r) ==
    /\ svc.pc = "inner"
    /\ svc' = [svc EXCEPT !.pc = "done", !.inner = r, !.ret = r]
    /\ UNCHANGED <<varsIn, varsOut, varsCtx>>
    /\ UNCHANGED twin

\* The inbound bridge with the worker runtime running the taken work items
\* through the middleware.
NextMw ==
    \/ NextBridge
    \/ WorkerTake
    \/ \E r \in {"Ok", "Err"} : InnerCompletes(r)

SpecMw == InitKinds /\ [][NextMw]_vars

\* The whole backend: both directions side by side.
Next == NextIn \/ NextOut

Spec == Init /\ [][Next]_vars

\* ================================================================ claims
WithinLimit(m) == payload[m] # NoPayload /\ payload[m].len <= max_message_size
Decodable(m) == WithinLimit(m) /\ payload[m].valid
HasItem(s, m) == \E i \in 1..Len(s) : s[i].kind = "task" /\ s[i].msg = m
IsPoll == last.op \in {"poll_flush", "poll_close"}
PublishedItems == {published[i].item : i \in 1..Len(published)}

\* C1: a message within the size limit that decodes is acknowledged only
\* after the send of its work item into the channel has succeeded: every
\* acknowledge call in its trace directly follows a successful send, whatever
\* the other handlers do meanwhile.
C1_AckAfterHandoff ==
    \A m \in Msgs : \A i \in 1..Len(trace[m]) :
        (Decodable(m) /\ trace[m][i] \in AckResults)
            => (i > 1 /\ trace[m][i-1] = "send_ok")

\* C1 witness: a decodable message was sent and then acknowledged while the
\* handler of another decodable message was running.
C1_Witness ==
    \E m, n \in Msgs :
        /\ m # n
        /\ Decodable(m) /\ Decodable(n)
        /\ CurrentRun(trace[m]) = <<"send_ok", "ack_ok">>
        /\ hpc[n] = "send"

\* C2 (as claimed): once the inbound sequence can yield nothing more (it was
\* abandoned or it ended), every decodable message the broker holds as
\* acknowledged has had its work item consumed by the worker runtime.
C2_AtLeastOnce ==
    \A m \in Msgs :
        (Decodable(m) /\ brokerAcked[m] /\ (rx = "dropped" \/ ended))
            => HasItem(consumed, m)

\* C3: a message whose payload is longer than max_message_size is
\* acknowledged and no work item for it is ever sent to the channel: each
\* finished run of its handler made exactly one call, the acknowledgment.
C3_OversizedAckedAndDropped ==
    \A m \in Msgs :
        (payload[m] # NoPayload /\ payload[m].len > max_message_size)
            => /\ "send_ok" \notin Range(trace[m])
               /\ ~HasItem(chan \o consumed, m)
               /\ (hpc[m] = "done" =>
                      /\ Len(CurrentRun(trace[m])) = 1
                      /\ CurrentRun(trace[m])[1] \in AckResults)

\* C3 witness: an oversized payload that would decode was acknowledged.
C3_Witness ==
    \E m \in Msgs :
        /\ payload[m].len > max_message_size
        /\ payload[m].valid
        /\ hpc[m] = "done"
        /\ brokerAcked[m]

\* C4: a message within the size limit whose payload fails decode is
\* acknowledged and no element for it is ever sent to the channel.
C4_PoisonAckedAndDropped ==
    \A m \in Msgs :
        (WithinLimit(m) /\ ~payload[m].valid)
            => /\ "send_ok" \notin Range(trace[m])
               /\ ~HasItem(chan \o consumed, m)
               /\ (hpc[m] = "done" =>
                      /\ Len(CurrentRun(trace[m])) = 1
                      /\ CurrentRun(trace[m])[1] \in AckResults)

\* C4 witness: a poison message was acknowledged while the channel had room.
C4_Witness ==
    \E m \in Msgs :
        /\ WithinLimit(m) /\ ~payload[m].valid
        /\ hpc[m] = "done"
        /\ brokerAcked[m]
        /\ rx = "open" /\ chan = <<>>

\* C5: a handler whose send failed because the channel is closed makes no
\* acknowledge call, and the message stays unacknowledged at the broker.
C5_ClosedSendNotAcked ==
    \A m \in Msgs :
        "send_closed" \in Range(CurrentRun(trace[m]))
            => /\ Range(CurrentRun(trace[m])) \cap AckResults = {}
               /\ (hpc[m] = "done" => CurrentRun(trace[m]) = <<"send_closed">>)
               /\ ~brokerAcked[m]

\* C5 witness: a handler finished after its send failed on the closed channel.
C5_Witness ==
    \E m \in Msgs :
        /\ Decodable(m)
        /\ rx = "dropped"
        /\ hpc[m] = "done"
        /\ CurrentRun(trace[m]) = <<"send_closed">>

\* C6: no item is ever published twice, and when drain or close reports
\* Ready with success, with nothing left in the buffer and no failed flush
\* before, publish has been invoked exactly once for each accepted item and
\* the flush slot is empty.
C6_PublishedExactlyOnce ==
    /\ \A i, j \in 1..Len(published) :
           published[i].item = published[j].item => i = j
    /\ (IsPoll /\ last.ret = "ReadyOk")
           => /\ ~flush_future.some
              /\ (buffer = <<>> /\ failedItems = {})
                     => /\ Len(published) = nAccepted
                        /\ PublishedItems = 1..nAccepted

\* C6 witness: three items accepted, then close polled to Ready through one
\* flush: three publish calls, none pending.
C6_Witness ==
    /\ last = [op |-> "poll_close", ret |-> "ReadyOk"]
    /\ nAccepted = 3
    /\ nFlushes = 1
    /\ Len(published) = 3
    /\ buffer = <<>>
    /\ ~flush_future.some

C7_StepReportsFailure ==
    (/\ PollFlush \/ PollClose
     /\ flush_future.some
     /\ \E i \in 1..Len(flush_future.st) : flush_future.st[i] = "err")
        => /\ last'.ret = "ReadyErr"
           /\ ~flush_future'.some
           /\ buffer' = buffer
           /\ published' = published

C7_StepAfterFailure ==
    (/\ PollFlush \/ PollClose
     /\ IsPoll /\ last.ret = "ReadyErr"
     /\ buffer = <<>>)
        => /\ last'.ret = "ReadyOk"
           /\ published' = published
           /\ ~flush_future'.some

\* C7: a drain that finds a failed publish in the running flush reports the
\* failure, empties the flush slot and leaves the buffer as it is; no item of
\* a failed batch is ever in the buffer again; the drain that follows a
\* reported failure (nothing accepted in between) reports Ready and publishes
\* nothing.
C7_FailedFlushNotRequeued ==
    /\ [](IsPoll /\ last.ret = "ReadyErr" => ~flush_future.some)
    /\ [](Range(buffer) \cap failedItems = {})
    /\ [][C7_StepReportsFailure]_vars
    /\ [][C7_StepAfterFailure]_vars

\* C7 witness: a publish of a batch of three failed and drain reported it.
C7_Witness ==
    /\ IsPoll /\ last.ret = "ReadyErr"
    /\ failedItems = {1, 2, 3}
    /\ Len(published) = 3
    /\ buffer = <<>>

\* C8: while a flush is in the slot (the drain that built it has returned),
\* the publish call of every item of its batch has been issued: none waits
\* for the result of another.
C8_FanOut ==
    flush_future.some =>
        /\ \A i \in 1..Len(flush_future.st) : flush_future.st[i] # "created"
        /\ Range(flush_future.batch) \subseteq PublishedItems

\* C8 witness: the publishes of a batch of three are all outstanding at once.
C8_Witness ==
    /\ flush_future.some
    /\ Len(flush_future.batch) = 3
    /\ \A i \in 1..3 : flush_future.st[i] = "waiting"

\* C9: drain constructs a flush only while the flush slot is empty, one at a
\* time, and the flush in the slot is the last one constructed.
C9_SingleFlight ==
    /\ [][nFlushes' # nFlushes => (~flush_future.some /\ nFlushes' = nFlushes + 1)]_vars
    /\ [](flush_future.some => flush_future.id = nFlushes)

\* C9 witness: drain was called with the slot occupied and items waiting in
\* the buffer, and started no second flush.
C9_Witness ==
    /\ IsPoll /\ last.ret = "Pending"
    /\ flush_future.some
    /\ buffer # <<>>
    /\ nFlushes = 1

C10_AcceptStep ==
    nAccepted' # nAccepted
        => /\ buffer' = Append(buffer, nAccepted')
           /\ flush_future' = flush_future
           /\ published' = published

C10_BatchFixed ==
    (flush_future.some /\ flush_future'.some /\ flush_future'.id = flush_future.id)
        => flush_future'.batch = flush_future.batch

\* C10: accepting an item appends it to the buffer and leaves the flush slot
\* unchanged; the batch of a flush never changes while it runs; an item is
\* published only by a flush constructed after the item was accepted.
C10_FlushOwnsSnapshot ==
    /\ [][C10_AcceptStep]_vars
    /\ [][C10_BatchFixed]_vars
    /\ [](\A i \in 1..Len(published) :
             published[i].flush > epoch[published[i].item].n)

\* C10 witness: an item accepted during flush 1 was published by flush 2.
C10_Witness ==
    \E i \in 1..Len(published) :
        /\ epoch[published[i].item].inflight
        /\ epoch[published[i].item].n = 1
        /\ published[i].flush = 2

\* The inbound sequence: what the worker runtime took, then what waits in
\* the channel.
InboundSeq == consumed \o chan

\* Deliveries received and not yet put into the channel.
NotEnqueued == {m \in Msgs : hpc[m] \in {"recv", "send"}}

\* A handler run that went through all its steps.
CompleteRuns ==
    {<<"ack_ok">>, <<"ack_err">>, <<"send_ok", "ack_ok">>, <<"send_ok", "ack_err">>,
     <<"send_closed">>}

C11_Suspended ==
    \A m \in Msgs :
        (hpc[m] = "send" /\ rx = "open" /\ Len(chan) >= buffer_size)
            => (hpc'[m] = "send" /\ trace'[m] = trace[m] /\ brokerAcked'[m] = brokerAcked[m])

\* C11: the channel never holds more than buffer_size elements; the
\* deliveries received and not yet consumed (waiting in the channel or not
\* yet enqueued) never number more than buffer_size plus the handlers that
\* are running; a handler whose send finds the channel full stays where it
\* is and has made no acknowledge call.
C11_Backpressure ==
    /\ [](Len(chan) <= buffer_size)
    /\ [](Len(chan) + Cardinality(NotEnqueued)
             <= buffer_size + Cardinality({m \in Msgs : InFlight(m)}))
    /\ [](\A m \in Msgs : hpc[m] = "send" => CurrentRun(trace[m]) = <<>>)
    /\ [][C11_Suspended]_vars

\* C11 witness: the consumer took nothing, the channel is full and a handler
\* waits in its send, unacknowledged.
C11_Witness ==
    \E m \in Msgs :
        /\ consumed = <<>>
        /\ rx = "open"
        /\ Len(chan) = buffer_size
        /\ hpc[m] = "send"
        /\ ~brokerAcked[m]

C12_LoopWaits ==
    (lpc = "receiving" /\ \E m \in Msgs : InFlight(m)) => lpc' = "receiving"

\* C12: the receive loop does not return while a handler is running, also
\* after shutdown(); once it has returned, every handler that was started
\* has finished, and every finished handler run went through all its steps.
C12_HandlersFinishBeforeReturn ==
    /\ [][C12_LoopWaits]_vars
    /\ [](lpc # "receiving" => \A m \in Msgs : ~InFlight(m))
    /\ [](\A m \in Msgs : hpc[m] = "done" => CurrentRun(trace[m]) \in CompleteRuns)

\* C12 witness: shutdown() was signalled while a handler had not yet sent its
\* work item (no delivery starts after the signal), and the loop has not
\* returned.
C12_Witness ==
    \E m \in Msgs :
        /\ cancel
        /\ lpc = "receiving"
        /\ Decodable(m)
        /\ hpc[m] = "send"

C13_PlacesError ==
    (lpc = "send_err" /\ lpc' = "finished") => chan' = Append(chan, ErrElem)

\* C13 (as claimed): whenever the receive loop has terminated with an error,
\* the task places one error element at the end of the inbound sequence
\* before it finishes.
C13_ErrorAlwaysPlaced == [][C13_PlacesError]_vars

\* C13 (amended): an error element is only ever the last element of the
\* inbound sequence and there is at most one, put there by a failed receive;
\* when the loop has terminated with an error and the worker runtime still
\* holds the sequence, there is exactly one; the sequence that ends after a
\* failed receive ends with the error element.
C13_ErrorIsLast ==
    /\ Count(InboundSeq, ErrElem) <= 1
    /\ \A i \in 1..Len(InboundSeq) : InboundSeq[i] = ErrElem => i = Len(InboundSeq)
    /\ ErrElem \in Range(InboundSeq) => result = "err"
    /\ (result = "err" /\ lpc = "finished" /\ rx = "open")
           => Count(InboundSeq, ErrElem) = 1
    /\ (result = "err" /\ ended)
           => (consumed # <<>> /\ consumed[Len(consumed)] = ErrElem)

\* C13 witness: the sequence yielded a work item, then the error, then ended.
C13_Witness ==
    /\ result = "err"
    /\ ended
    /\ Len(consumed) >= 2
    /\ consumed[1].kind = "task"
    /\ consumed[Len(consumed)] = ErrElem

C14_AckFailureStep ==
    \A m \in Msgs :
        (/\ Len(trace'[m]) = Len(trace[m]) + 1
         /\ trace'[m][Len(trace'[m])] = "ack_err")
            => /\ lpc' = lpc /\ result' = result /\ cancel' = cancel
               /\ chan' = chan /\ consumed' = consumed
               /\ rx' = rx /\ ended' = ended

\* C14: a failed acknowledgment changes neither the receive loop nor the
\* channel nor what was consumed, and every error element of the inbound
\* sequence comes from a failed receive, never from an acknowledgment.
C14_AckFailureIsLocal ==
    /\ [][C14_AckFailureStep]_vars
    /\ [](\A i \in 1..Len(InboundSeq) : InboundSeq[i].kind = "err" => result = "err")

\* C14 witness: the acknowledgment of a handed-off message failed; the loop
\* went on, the message was delivered and handed off again, and both work
\* items are in the sequence.
C14_Witness ==
    \E m \in Msgs :
        /\ trace[m] = <<"deliver", "send_ok", "ack_err", "deliver", "send_ok", "ack_ok">>
        /\ lpc = "receiving"
        /\ result = "none"
        /\ Cardinality({i \in 1..Len(InboundSeq) : InboundSeq[i].msg = m}) = 2

C15_AcceptAppends ==
    nAccepted' # nAccepted
        => /\ last' = [op |-> "start_send", ret |-> "Ok"]
           /\ Len(buffer') = Len(buffer) + 1
           /\ SubSeq(buffer', 1, Len(buffer)) = buffer
           /\ buffer'[Len(buffer')] = nAccepted'
           /\ flush_future' = flush_future

\* C15: in every state of the sink poll_ready and start_send can be called
\* and return success (start_send for as long as the run has items left to
\* offer: the sink itself applies no cap); the accepted item becomes the last
\* element of the buffer, the elements before it and the flush slot stay as
\* they were.
C15_AcceptAlwaysSucceeds ==
    /\ [](ENABLED PollReady)
    /\ [](nAccepted < MaxItems => ENABLED StartSend)
    /\ [](last.op = "poll_ready" => last.ret = "ReadyOk")
    /\ [](last.op = "start_send" => last.ret = "Ok")
    /\ [][C15_AcceptAppends]_vars

\* C15 witness: a flush failed, a second flush is running, shutdown() was
\* called, and an item was accepted all the same.
C15_Witness ==
    /\ last = [op |-> "start_send", ret |-> "Ok"]
    /\ failedItems # {}
    /\ flush_future.some
    /\ cancel
    /\ buffer = <<nAccepted>>

C16_ShutdownLeavesSink ==
    cancel' # cancel
        => /\ buffer' = buffer
           /\ flush_future' = flush_future
           /\ published' = published
           /\ last' = last

C16_FlushEndsOnlyByResult ==
    (flush_future.some /\ flush_future' # flush_future)
        => \/ /\ flush_future'.some
              /\ flush_future'.id = flush_future.id
              /\ flush_future'.batch = flush_future.batch
           \/ /\ flush_future' = NoFlush
              /\ last'.op \in {"poll_flush", "poll_close"}
              /\ \/ /\ last'.ret = "ReadyOk"
                    /\ \A i \in 1..Len(flush_future.st) : flush_future.st[i] = "ok"
                 \/ /\ last'.ret = "ReadyErr"
                    /\ \E i \in 1..Len(flush_future.st) : flush_future.st[i] = "err"

\* C16: the step that sets the cancellation flag changes nothing of the sink;
\* a flush in the slot keeps its batch and leaves the slot only through a
\* drain that found all its publishes succeeded (Ready) or one of them failed
\* (error), before shutdown() and after it alike.
C16_FlushNotCancellable ==
    /\ [][C16_ShutdownLeavesSink]_vars
    /\ [][C16_FlushEndsOnlyByResult]_vars

\* C16 witness: shutdown() was called while flush 1 was running with a batch
\* of two or more; the flush went on and drain reported Ready after all its
\* publishes had succeeded.
C16_Witness ==
    /\ atCancel = [set |-> TRUE, flush |-> 1]
    /\ nFlushes = 1
    /\ flush_future = NoFlush
    /\ IsPoll /\ last.ret = "ReadyOk"
    /\ Len(published) >= 2
    /\ failedItems = {}

C17_CallStep ==
    (ctxLast' # ctxLast \/ fnCalls' # fnCalls)
        => /\ Len(fnCalls') = Len(fnCalls) + 1
           /\ SubSeq(fnCalls', 1, Len(fnCalls)) = fnCalls
           /\ LET c == fnCalls'[Len(fnCalls')]
              IN /\ ctxLast'.op = "ack" => c.fn = "acknowledge"
                 /\ ctxLast'.op = "nack" => c.fn = "negative_acknowledge"
                 /\ ctxLast'.op \in {"ack", "nack"}
                 /\ ctxLast'.ret.ok = c.out.ok
                 /\ ~c.out.ok => (ctxLast'.ret.kind = "AckFailed" /\ ctxLast'.ret.msg = c.out.err)
           /\ ctx' = ctx

\* C17: a call of ack() invokes the acknowledge operation once and nothing
\* else, a call of nack() the negative-acknowledge operation once; the call
\* returns Ok exactly when the operation did, otherwise AckFailed with the
\* operation's error; the context stays as constructed, and both methods can
\* be called again after any call.
C17_ContextAckNack ==
    /\ [][C17_CallStep]_vars
    /\ [](ctx = [ack_id |-> "ack-1", ack_fn |-> "acknowledge", nack_fn |-> "negative_acknowledge"])
    /\ [](Len(fnCalls) < MaxCalls => (ENABLED ack /\ ENABLED nack))

\* C17 witness: ack() was called twice, the operation succeeded the first
\* time and failed the second; then nack() was called and failed.
C17_Witness ==
    /\ Len(fnCalls) = 3
    /\ fnCalls[1] = [fn |-> "acknowledge", out |-> [ok |-> TRUE, err |-> ""]]
    /\ fnCalls[2] = [fn |-> "acknowledge", out |-> [ok |-> FALSE, err |-> "e1"]]
    /\ fnCalls[3] = [fn |-> "negative_acknowledge", out |-> [ok |-> FALSE, err |-> "e2"]]
    /\ ctxLast = [op |-> "nack", ret |-> [ok |-> FALSE, kind |-> "AckFailed", msg |-> "e2"]]

\* The work items of the inbound sequence.
EmittedItems == {i \in 1..Len(InboundSeq) : InboundSeq[i].kind = "task"}

\* C18: any two work items of the inbound sequence carry different ids.
C18_AllIdsDiffer ==
    \A i, j \in EmittedItems : InboundSeq[i].id = InboundSeq[j].id => i = j

C19_StartStep ==
    (/\ PollFlush \/ PollClose
     /\ ~flush_future.some
     /\ buffer # <<>>)
        => /\ buffer' = <<>>
           /\ nFlushes' = nFlushes + 1
           /\ flush_future'.some
           /\ flush_future'.id = nFlushes + 1
           /\ flush_future'.batch = buffer
           /\ published' = published \o [i \in 1..Len(buffer) |->
                                             [item |-> buffer[i], flush |-> nFlushes + 1]]
           /\ last'.ret = "Pending"

\* C19: a drain called with the flush slot empty and items in the buffer
\* leaves the buffer empty, puts one new flush into the slot whose batch is
\* what the buffer held, in that order, issues the publishes of that batch,
\* and returns Pending.
C19_DrainStartsFlush == [][C19_StartStep]_vars

\* C19 witness: the second flush was just constructed from a buffer of two
\* items: the drain returned Pending, the buffer is empty and both publishes
\* are outstanding.
C19_Witness ==
    /\ last = [op |-> "poll_flush", ret |-> "Pending"]
    /\ nFlushes = 2
    /\ buffer = <<>>
    /\ flush_future.some
    /\ flush_future.batch = <<2, 3>>
    /\ flush_future.st = <<"waiting", "waiting">>

C20_CompletingStep ==
    (/\ PollFlush \/ PollClose
     /\ flush_future.some
     /\ last'.ret \in {"ReadyOk", "ReadyErr"})
        => /\ flush_future' = NoFlush
           /\ buffer' = buffer
           /\ published' = published
           /\ nFlushes' = nFlushes

\* C20: whenever a drain has returned Ready, with success or with an error,
\* the flush slot is empty; the drain that completes a flush leaves the
\* buffer as it is, issues no publish and constructs no flush; an item is
\* never in the buffer and published at the same time.
C20_DrainNotRecursive ==
    /\ [](IsPoll /\ last.ret \in {"ReadyOk", "ReadyErr"} => flush_future = NoFlush)
    /\ [](Range(buffer) \cap PublishedItems = {})
    /\ [][C20_CompletingStep]_vars

\* C20 witness: flush 1 completed and drain returned Ready while the buffer
\* holds two items that were accepted during that flush; none of them has
\* been published and no second flush exists.
C20_Witness ==
    /\ last = [op |-> "poll_flush", ret |-> "ReadyOk"]
    /\ flush_future = NoFlush
    /\ nFlushes = 1
    /\ buffer = <<2, 3>>
    /\ epoch[2].inflight /\ epoch[3].inflight
    /\ PublishedItems = {1}

\* What a drain does in the current state: its result and the buffer, the
\* flush slot and the publish calls it leaves.
DrainOutcome ==
    IF ~flush_future.some /\ buffer = <<>>
    THEN [ret |-> "ReadyOk", buffer |-> buffer, slot |-> flush_future, calls |-> published]
    ELSE LET f == FlushToPoll
             r == PollResult(f.st)
         IN [ret |-> r, buffer |-> BufferAfterFlushStart, slot |-> SlotAfterPoll(f, r),
             calls |-> published \o IssuedCalls(f, f.st, 1)]

C21_SameStep ==
    (PollClose \/ PollFlush)
        => [ret |-> last'.ret, buffer |-> buffer', slot |-> flush_future',
            calls |-> published'] = DrainOutcome

C21_AcceptedAfterClose ==
    (nAccepted' # nAccepted /\ last = [op |-> "poll_close", ret |-> "ReadyOk"])
        => /\ buffer' = Append(buffer, nAccepted')
           /\ last' = [op |-> "start_send", ret |-> "Ok"]

\* C21: in every state a close step and a drain step return the same result
\* and leave the same buffer, flush slot and publish calls; after close has
\* reported Ready the sink accepts an item as before, and close can be
\* called again.
C21_CloseIsDrain ==
    /\ [][C21_SameStep]_vars
    /\ [][C21_AcceptedAfterClose]_vars
    /\ [](ENABLED PollClose /\ ENABLED PollFlush)
    /\ []((last = [op |-> "poll_close", ret |-> "ReadyOk"] /\ nAccepted < MaxItems)
              => ENABLED StartSend)

\* C21 witness: an item accepted right after close had reported Ready was
\* published by a later flush, and close reported Ready again.
C21_Witness ==
    /\ last = [op |-> "poll_close", ret |-> "ReadyOk"]
    /\ \E i \in 1..Len(published) :
           /\ epoch[published[i].item].afterClose
           /\ published[i].flush = 2
           /\ epoch[published[i].item].n = 1

C22_EndIsFinal ==
    ended => (ended' /\ consumed' = consumed)

\* C22: once shutdown() has been called the receive loop returns and no
\* handler, hence no sender, is left; if the worker runtime still holds the
\* inbound sequence, the sequence ends.  The sequence ends only after the
\* loop has returned, which takes shutdown() or a failed receive, and yields
\* nothing once it has ended.
C22_ShutdownEndsSequence ==
    /\ cancel ~> /\ lpc = "finished"
                 /\ \A m \in Msgs : ~InFlight(m)
                 /\ ended \/ rx = "dropped"
    /\ [](ended => (lpc = "finished" /\ chan = <<>> /\ (cancel \/ result = "err")))
    /\ [][C22_EndIsFinal]_vars

\* C22 witness: shutdown() was called, the consumer kept polling and took
\* two work items, and the sequence ended after a receive that returned Ok.
C22_Witness ==
    /\ ended
    /\ cancel
    /\ result = "ok"
    /\ Len(consumed) = 2
    /\ \A i \in 1..2 : consumed[i].kind = "task"

\* The work items of message m in the inbound sequence.
ItemsOf(m) == {i \in 1..Len(InboundSeq) : InboundSeq[i].kind = "task" /\ InboundSeq[i].msg = m}

C23_ElementAdded ==
    Len(chan') > Len(chan)
        => /\ Len(chan') = Len(chan) + 1
           /\ rx = "open"
           /\ \/ /\ chan'[Len(chan')] = ErrElem
                 /\ lpc = "send_err"
              \/ \E m \in Msgs :
                    /\ chan'[Len(chan')].kind = "task"
                    /\ chan'[Len(chan')].msg = m
                    /\ hpc[m] = "send"
                    /\ Decodable(m)
                    /\ trace'[m] = Append(trace[m], "send_ok")

\* C23: an element enters the channel only as the one work item of a running
\* handler whose payload is within the limit and decodes, while the receiver
\* is there, or as the error of a failed receive; a delivery sends at most
\* one work item, and a finished delivery has sent one exactly when its
\* payload is within the limit and decodes and its send did not find the
\* channel closed; the sequence holds no more work items of a message than
\* were sent for it, and all of them while the receiver is held; every
\* element is a work item or the error of a failed receive.
C23_OneElementPerDelivery ==
    /\ [][C23_ElementAdded]_vars
    /\ [](\A m \in Msgs :
             /\ Count(CurrentRun(trace[m]), "send_ok") <= 1
             /\ Count(trace[m], "send_ok") <= Count(trace[m], "deliver")
             /\ hpc[m] = "done"
                    => (Count(CurrentRun(trace[m]), "send_ok") = 1
                           <=> (Decodable(m) /\ Count(CurrentRun(trace[m]), "send_closed") = 0))
             /\ Cardinality(ItemsOf(m)) <= Count(trace[m], "send_ok")
             /\ rx = "open" => Cardinality(ItemsOf(m)) = Count(trace[m], "send_ok"))
    /\ [](\A i \in 1..Len(InboundSeq) :
             \/ InboundSeq[i].kind = "task"
             \/ InboundSeq[i] = ErrElem /\ result = "err" /\ lpc = "finished")

\* C23 witness: one message was delivered twice and sent a work item each
\* time, the other was delivered once, did not pass the size check or the
\* decoder, and sent nothing: two elements for three deliveries.
C23_Witness ==
    \E m1, m2 \in Msgs :
        /\ trace[m1] = <<"deliver", "send_ok", "ack_err", "deliver", "send_ok", "ack_ok">>
        /\ hpc[m2] = "done"
        /\ payload[m2] # NoPayload
        /\ ~Decodable(m2)
        /\ rx = "open"
        /\ Len(InboundSeq) = 2

\* The acknowledge calls of a handler run.
AcksIn(run) == Count(run, "ack_ok") + Count(run, "ack_err")

C25_DrainTerminates ==
    /\ flush_future.some ~> (flush_future = NoFlush)
    /\ (IsPoll /\ last.ret = "Pending")
           ~> (IsPoll /\ last.ret \in {"ReadyOk", "ReadyErr"})
    /\ [](last.ret # "panic")
    /\ []((flush_future.some \/ buffer # <<>>) => FlushToPoll.some)

\* C25 witness: a flush of three items went through Pending drains until
\* the last publish had completed, and the drain then reported Ready.
C25_Witness ==
    /\ last = [op |-> "poll_flush", ret |-> "ReadyOk"]
    /\ nFlushes = 1
    /\ Len(published) = 3
    /\ flush_future = NoFlush
    /\ buffer = <<>>
    /\ \A i \in 1..3 : ~epoch[i].inflight

\* Every item the clone holds or has published.
TwinItems ==
    Range(twin.buffer) \cup Range(twin.flush_future.batch)
        \cup {twin.published[i].item : i \in 1..Len(twin.published)}

C26_CloneStep ==
    (~twin.exists /\ twin'.exists)
        => /\ twin'.flush_future = NoFlush
           /\ twin'.buffer = buffer
           /\ Range(twin'.buffer) \cap Range(flush_future.batch) = {}
           /\ twin'.published = <<>>
           /\ UNCHANGED varsOut

C26_TwinStep ==
    (twin.exists /\ twin' # twin)
        => /\ UNCHANGED varsOut
           /\ TwinItems' = TwinItems

C26_OriginalStep ==
    (twin.exists /\ <<buffer, flush_future, published>>' # <<buffer, flush_future, published>>)
        => twin' = twin

\* C26: the clone starts with an empty flush slot and a buffer equal to the
\* original's, which holds no item of the original's running flush; a drain
\* of the clone, or the completion of one of its publishes, leaves the
\* original's buffer, flush slot and publish calls as they are and concerns
\* only items the clone started with; a step of the original leaves the
\* clone as it is.
C26_CloneIsIndependent ==
    /\ [][C26_CloneStep]_vars
    /\ [][C26_TwinStep]_vars
    /\ [][C26_OriginalStep]_vars

\* C26 witness: the sink was cloned while its flush of item 1 was running
\* and item 2 was buffered; the clone drained item 2 to Ready, and the
\* original still has its flush outstanding and item 2 in its buffer.
C26_Witness ==
    /\ twin.exists
    /\ twin.last = "ReadyOk"
    /\ twin.buffer = <<>>
    /\ Len(twin.published) = 1
    /\ twin.published[1].item = 2
    /\ flush_future.some
    /\ flush_future.batch = <<1>>
    /\ flush_future.st = <<"waiting">>
    /\ buffer = <<2>>

====
